---- MODULE Spec2Model ----
(***************************************************************************)
(* Model of the anabet-core outbound client: the sliding-window            *)
(* RateLimiter (src/src/services/rate_limiter.py), the CacheService        *)
(* (src/src/services/cache_service.py) and APIFootballClient._make_request *)
(* (src/src/services/api_football_client.py).                              *)
(*                                                                         *)
(* Time is an integer clock `now` (datetime.now(), in seconds). Every       *)
(* method body, and every stretch of a coroutine between two awaits, runs  *)
(* at one instant and is one action. The limiter on its own (SpecLimiter,  *)
(* SpecScenario), the cache on its own (SpecCache) and the monitoring       *)
(* surface (SpecStats) run on an absolute clock; the client (Spec, with    *)
(* two tasks SpecPair, with cancellation SpecCancel, under fair scheduling *)
(* SpecFair, behind the controller's `async with` SpecScope) keeps its     *)
(* clock relative to the present, see ClockTick.                           *)
(***************************************************************************)
EXTENDS Integers, Sequences, FiniteSets, TLC

VARIABLES
    now,            \* datetime.now()
    requests,       \* RateLimiter.requests: deque of timestamps, oldest first
    max_requests,   \* RateLimiter.max_requests
    time_window,    \* RateLimiter.time_window
    cache,          \* CacheService._cache: fingerprint -> entry
    client,         \* APIFootballClient.client: the transport handle, or None
    handles,        \* the httpx.AsyncClient objects the scope entries have created, in order
    call,           \* per task: the logical call of _make_request it is running
    last,           \* observation: the last limiter method called and what it returned
    permit,         \* observation: the driver saw can_make_request() = True and has not used it
    admitted        \* observation: every timestamp the limiter driver has recorded through add_request, in order

vars == <<now, requests, max_requests, time_window, cache, client, handles, call,
          last, permit, admitted>>

\* ------------------------------------------------------------------ bounds
MaxRequests == 2    \* largest max_requests a limiter is constructed with
MaxWindow == 3      \* largest time_window a limiter is constructed with
Slack == 3          \* the clock runs to time_window + Slack
MaxQueue == 3       \* a call is started only while the deque holds at most MaxQueue timestamps
Jitter == 1         \* seconds a response, or a wake-up after a sleep, may be late
MaxHandles == 3     \* requests the controller serves, one scope entry each
MaxOver == 2        \* add_request calls beyond max_requests by a caller that does not check
ModelWindow == 4    \* the client's limiter window, scaled down from 60 seconds
ModelRate == 1      \* settings.rate_limit_per_minute, scaled down from 30
ModelTtl == 3       \* settings.cache_ttl, scaled down from 3600 seconds
MaxClock == 3       \* the clock of the cache driven on its own runs to MaxClock
MaxTtl == 2         \* largest ttl the cache driver stores an entry with

\* ----------------------------------------------------------------- settings
max_retries == 3    \* api_football_config.py:9

\* Optional[...] values: None is the empty tuple, a value v is <<v>>.
None == <<>>
Some(v) == <<v>>

Max(a, b) == IF a >= b THEN a ELSE b

\* ============================================================ RateLimiter

\* the cutoff comparison made inclusive: a timestamp exactly time_window old is dropped
RECURSIVE clean_inclusive(_, _, _)
clean_inclusive(reqs, t, tw) ==
    LET cutoff_time == t - tw IN
    IF reqs # <<>> /\ Head(reqs) <= cutoff_time
    THEN clean_inclusive(Tail(reqs), t, tw)
    ELSE reqs

\* rate_limiter.py:27-31  pop from the left while the head is older than the cutoff
RECURSIVE _clean_old_requests(_, _, _)
_clean_old_requests(reqs, t, tw) ==
    LET cutoff_time == t - tw IN
    IF reqs # <<>> /\ Head(reqs) < cutoff_time
    THEN _clean_old_requests(Tail(reqs), t, tw)
    ELSE reqs

\* rate_limiter.py:18-21  the value returned (the deque is pruned first)
can_make_request(reqs, t, tw, mr) ==
    Len(_clean_old_requests(reqs, t, tw)) < mr

\* add_request recording an instant once, however many requests are made at it
add_request_once_per_instant(reqs, t) ==
    IF reqs # <<>> /\ reqs[Len(reqs)] = t THEN reqs ELSE Append(reqs, t)

\* add_request recording nothing
add_request_dropped(reqs, t) == reqs

\* add_request putting the timestamp at the front (appendleft)
add_request_front(reqs, t) == <<t>> \o reqs

\* rate_limiter.py:23-25
add_request(reqs, t) == Append(reqs, t)

\* get_wait_time without its first test (lines 35-36)
get_wait_time_unguarded(reqs, t, tw, mr) ==
    LET cleaned == _clean_old_requests(reqs, t, tw) IN
    IF cleaned = <<>> THEN None
    ELSE Some(Max(0, (Head(cleaned) + tw) - t))

\* get_wait_time reading the newest timestamp instead of the oldest
get_wait_time_newest(reqs, t, tw, mr) ==
    IF can_make_request(reqs, t, tw, mr) THEN None
    ELSE LET cleaned == _clean_old_requests(reqs, t, tw) IN
         IF cleaned = <<>> THEN None
         ELSE Some(Max(0, (cleaned[Len(cleaned)] + tw) - t))

\* rate_limiter.py:33-46  the value returned
get_wait_time(reqs, t, tw, mr) ==
    IF can_make_request(reqs, t, tw, mr) THEN None
    ELSE LET cleaned == _clean_old_requests(reqs, t, tw) IN
         IF cleaned = <<>> THEN None
         ELSE LET oldest_request == Head(cleaned)
                  wait_until == oldest_request + tw
                  wait_seconds == wait_until - t
              IN Some(Max(0, wait_seconds))

\* rate_limiter.py:48-56  the dict returned
get_stats(reqs, t, tw, mr) ==
    LET cleaned == _clean_old_requests(reqs, t, tw) IN
    [requests_in_window |-> Len(cleaned),
     max_requests |-> mr,
     remaining_requests |-> mr - Len(cleaned),
     wait_time_seconds |-> get_wait_time(cleaned, t, tw, mr)]


\* =========================================================== CacheService

\* the order of the parameter names, as sort_keys=True orders them
KeyOrder == <<"country", "league", "season">>
Rank(k) == CHOOSE i \in 1..Len(KeyOrder) : KeyOrder[i] = k

\* insert one (name, value) item into a list of items sorted by name
RECURSIVE InsertItem(_, _)
InsertItem(item, sorted) ==
    IF sorted = <<>> THEN <<item>>
    ELSE IF Rank(item[1]) <= Rank(Head(sorted)[1]) THEN <<item>> \o sorted
    ELSE <<Head(sorted)>> \o InsertItem(item, Tail(sorted))

\* json.dumps without sort_keys: the items in insertion order
json_dumps_unsorted(params) == params

\* cache_service.py:14  json.dumps(params, sort_keys=True): the items of the
\* dict (given in insertion order) written out in the order of their names
RECURSIVE json_dumps_sorted(_)
json_dumps_sorted(params) ==
    IF params = <<>> THEN <<>>
    ELSE InsertItem(Head(params), json_dumps_sorted(Tail(params)))

\* cache_service.py:12-15  the md5 of "endpoint:params_str"; the digest is
\* taken to be collision-free, so it is the hashed text itself
_generate_key(endpoint, params) == <<endpoint, json_dumps_sorted(params)>>

\* cache_service.py:9-10
EmptyCache == [k \in {} |-> None]

\* the expiry test of get reversed
cache_get_reversed(ch, endpoint, params, t) ==
    LET key == _generate_key(endpoint, params) IN
    IF key \in DOMAIN ch /\ t > ch[key].expires_at THEN Some(ch[key].data) ELSE None

\* cache_service.py:17-29  the value returned
cache_get(ch, endpoint, params, t) ==
    LET key == _generate_key(endpoint, params) IN
    IF key \in DOMAIN ch /\ t < ch[key].expires_at THEN Some(ch[key].data) ELSE None

\* get deleting the entry it returns
cache_after_get_destructive(ch, endpoint, params, t) ==
    LET key == _generate_key(endpoint, params) IN
    IF key \in DOMAIN ch THEN [k \in DOMAIN ch \ {key} |-> ch[k]] ELSE ch

\* get without the deletion of lines 25-27
cache_after_get_keeps(ch, endpoint, params, t) == ch

\* cache_service.py:17-29  the map afterwards: an expired entry is deleted
cache_after_get(ch, endpoint, params, t) ==
    LET key == _generate_key(endpoint, params) IN
    IF key \in DOMAIN ch /\ ~(t < ch[key].expires_at)
    THEN [k \in DOMAIN ch \ {key} |-> ch[k]]
    ELSE ch

\* set without the ttl: the entry expires as it is stored
cache_set_no_ttl(ch, endpoint, params, data, ttl, t) ==
    LET key == _generate_key(endpoint, params)
        entry == [data |-> data, expires_at |-> t, created_at |-> t]
    IN [k \in DOMAIN ch \cup {key} |-> IF k = key THEN entry ELSE ch[k]]

\* set leaving an entry that is already stored as it is
cache_set_keeps_first(ch, endpoint, params, data, ttl, t) ==
    LET key == _generate_key(endpoint, params)
        entry == [data |-> data, expires_at |-> t + ttl, created_at |-> t]
    IN [k \in DOMAIN ch \cup {key} |-> IF k \in DOMAIN ch THEN ch[k] ELSE entry]

\* cache_service.py:31-38  the map afterwards
cache_set(ch, endpoint, params, data, ttl, t) ==
    LET key == _generate_key(endpoint, params)
        entry == [data |-> data, expires_at |-> t + ttl, created_at |-> t]
    IN [k \in DOMAIN ch \cup {key} |-> IF k = key THEN entry ELSE ch[k]]

\* cache_service.py:40-42
cache_clear(ch) == EmptyCache

\* clear_expired keeping an entry at the instant it expires
cache_clear_expired_strict(ch, t) ==
    LET expired_keys == {key \in DOMAIN ch : t > ch[key].expires_at}
    IN [k \in DOMAIN ch \ expired_keys |-> ch[k]]

\* cache_service.py:44-52  the map afterwards
cache_clear_expired(ch, t) ==
    LET expired_keys == {key \in DOMAIN ch : t >= ch[key].expires_at}
    IN [k \in DOMAIN ch \ expired_keys |-> ch[k]]

\* get_stats counting an entry as valid at the instant it expires
cache_get_stats_inclusive(ch, t) ==
    LET valid_entries == Cardinality({key \in DOMAIN ch : t <= ch[key].expires_at})
    IN [total_entries |-> Cardinality(DOMAIN ch),
        valid_entries |-> valid_entries,
        expired_entries |-> Cardinality(DOMAIN ch) - valid_entries]

\* cache_service.py:54-66  the dict returned
cache_get_stats(ch, t) ==
    LET valid_entries == Cardinality({key \in DOMAIN ch : t < ch[key].expires_at})
    IN [total_entries |-> Cardinality(DOMAIN ch),
        valid_entries |-> valid_entries,
        expired_entries |-> Cardinality(DOMAIN ch) - valid_entries]

\* a task that runs no call
NoTask ==
    [pc |-> "idle", endpoint |-> "", params |-> <<>>, use_cache |-> FALSE,
     attempt |-> 0, last_exception |-> None, wake |-> 0, issued |-> 0,
     result |-> None, error |-> None, hit |-> FALSE, waited |-> None, outcomes |-> <<>>,
     sleeps |-> <<>>, n_check |-> 0, n_add |-> 0, n_net |-> 0, n_set |-> 0]

\* the variables the limiter's own methods never touch
client_vars == <<cache, client, handles, call>>

NoCall == [op |-> "none", at |-> 0, can |-> TRUE, wait |-> None, remaining |-> 0,
           endpoint |-> "", params |-> <<>>, data |-> None, ttl |-> 0, value |-> None,
           evicted |-> 0, stats |-> None]

\* ---- the limiter driven directly by a caller that checks before it adds

\* RateLimiter(max_requests, time_window): rate_limiter.py:8-16
LimiterInit ==
    /\ now = 0
    /\ max_requests \in 1..MaxRequests
    /\ time_window \in 1..MaxWindow
    /\ requests = <<>>
    /\ cache = EmptyCache
    /\ client = None
    /\ handles = <<>>
    /\ call = [c \in {} |-> NoTask]
    /\ last = NoCall
    /\ permit = FALSE
    /\ admitted = <<>>

\* the clock advances by one second
Tick ==
    /\ now < time_window + Slack
    /\ now' = now + 1
    /\ UNCHANGED <<requests, max_requests, time_window, last, permit, admitted, client_vars>>

CallCanMakeRequest ==
    LET r == can_make_request(requests, now, time_window, max_requests) IN
    /\ requests' = _clean_old_requests(requests, now, time_window)
    /\ last' = [NoCall EXCEPT !.op = "can_make_request", !.at = now, !.can = r]
    /\ permit' = r
    /\ UNCHANGED <<now, max_requests, time_window, admitted, client_vars>>

\* the caller adds only after can_make_request() returned True
CallAddRequest ==
    /\ permit
    /\ requests' = add_request(requests, now)
    /\ admitted' = Append(admitted, now)
    /\ last' = [NoCall EXCEPT !.op = "add_request", !.at = now]
    /\ permit' = FALSE
    /\ UNCHANGED <<now, max_requests, time_window, client_vars>>

CallGetWaitTime ==
    /\ requests' = _clean_old_requests(requests, now, time_window)
    /\ last' = [NoCall EXCEPT !.op = "get_wait_time", !.at = now,
                  !.can = can_make_request(requests, now, time_window, max_requests),
                  !.wait = get_wait_time(requests, now, time_window, max_requests)]
    /\ UNCHANGED <<now, max_requests, time_window, permit, admitted, client_vars>>

CallGetStats ==
    LET s == get_stats(requests, now, time_window, max_requests) IN
    /\ requests' = _clean_old_requests(requests, now, time_window)
    /\ last' = [NoCall EXCEPT !.op = "get_stats", !.at = now, !.wait = s.wait_time_seconds,
                  !.remaining = s.remaining_requests]
    /\ UNCHANGED <<now, max_requests, time_window, permit, admitted, client_vars>>

LimiterNext ==
    \/ Tick
    \/ CallCanMakeRequest
    \/ CallAddRequest
    \/ CallGetWaitTime
    \/ CallGetStats

SpecLimiter == LimiterInit /\ [][LimiterNext]_vars

\* The limiter RateLimiter(max_requests=2, time_window=60) of the documented
\* scenario, beside the small ones.
ScenarioInit ==
    /\ now = 0
    /\ \E cfg \in ((1..MaxRequests) \X (1..MaxWindow)) \cup {<<2, 60>>} :
          max_requests = cfg[1] /\ time_window = cfg[2]
    /\ requests = <<>>
    /\ cache = EmptyCache
    /\ client = None
    /\ handles = <<>>
    /\ call = [c \in {} |-> NoTask]
    /\ last = NoCall
    /\ permit = FALSE
    /\ admitted = <<>>

SpecScenario == ScenarioInit /\ [][LimiterNext]_vars

\* ---- the limiter driven by a caller that adds without checking

\* rate_limiter.py:23-25  add_request() called whatever the window holds
AddRequestUnchecked ==
    /\ Len(admitted) < max_requests + MaxOver
    /\ requests' = add_request(requests, now)
    /\ admitted' = Append(admitted, now)
    /\ last' = [NoCall EXCEPT !.op = "add_request", !.at = now]
    /\ UNCHANGED <<now, max_requests, time_window, permit, client_vars>>

UncheckedNext ==
    \/ Tick
    \/ AddRequestUnchecked
    \/ CallCanMakeRequest
    \/ CallGetWaitTime
    \/ CallGetStats

SpecUnchecked == LimiterInit /\ [][UncheckedNext]_vars

\* ---- the cache driven directly

\* the (endpoint, params) the cache is driven with: one parameter set in two
\* insertion orders, then a differing value, a differing name, a differing
\* endpoint
CacheShapes ==
    { <<"/leagues", << <<"country", "fr">>, <<"season", "2023">> >> >>,
      <<"/leagues", << <<"season", "2023">>, <<"country", "fr">> >> >>,
      <<"/leagues", << <<"country", "fr">>, <<"season", "2024">> >> >>,
      <<"/leagues", << <<"country", "fr">>, <<"league", "2023">> >> >>,
      <<"/teams", << <<"country", "fr">>, <<"season", "2023">> >> >> }

\* the (endpoint, params) entries are stored under: two fingerprints
StoredShapes ==
    { <<"/leagues", << <<"country", "fr">>, <<"season", "2023">> >> >>,
      <<"/leagues", << <<"season", "2023">>, <<"country", "fr">> >> >>,
      <<"/leagues", << <<"country", "fr">>, <<"season", "2024">> >> >> }

\* the payloads stored
CachePayloads == {"a", "b"}

\* CacheService(): cache_service.py:9-10, beside a limiter that is not used
CacheInit ==
    /\ now = 0
    /\ max_requests = 1
    /\ time_window = 1
    /\ requests = <<>>
    /\ cache = EmptyCache
    /\ client = None
    /\ handles = <<>>
    /\ call = [c \in {} |-> NoTask]
    /\ last = NoCall
    /\ permit = FALSE
    /\ admitted = <<>>

\* the variables the cache's own methods never touch
not_cache_vars ==
    <<now, requests, max_requests, time_window, client, handles, call, permit, admitted>>

\* the clock advances by one second
CacheTick ==
    /\ now < MaxClock
    /\ now' = now + 1
    /\ UNCHANGED <<requests, max_requests, time_window, cache, client, handles, call,
                   last, permit, admitted>>

CallCacheGet(shape) ==
    /\ cache' = cache_after_get(cache, shape[1], shape[2], now)
    /\ last' = [NoCall EXCEPT !.op = "cache_get", !.at = now, !.endpoint = shape[1],
                  !.params = shape[2],
                  !.value = cache_get(cache, shape[1], shape[2], now),
                  !.evicted = Cardinality(DOMAIN cache)
                     - Cardinality(DOMAIN cache_after_get(cache, shape[1], shape[2], now))]
    /\ UNCHANGED not_cache_vars

CallCacheSet(shape, data, ttl) ==
    /\ cache' = cache_set(cache, shape[1], shape[2], data, ttl, now)
    /\ last' = [NoCall EXCEPT !.op = "cache_set", !.at = now, !.endpoint = shape[1],
                  !.params = shape[2], !.data = Some(data), !.ttl = ttl]
    /\ UNCHANGED not_cache_vars

CallCacheClear ==
    /\ cache' = cache_clear(cache)
    /\ last' = [NoCall EXCEPT !.op = "cache_clear", !.at = now]
    /\ UNCHANGED not_cache_vars

CallCacheClearExpired ==
    /\ cache' = cache_clear_expired(cache, now)
    /\ last' = [NoCall EXCEPT !.op = "cache_clear_expired", !.at = now,
                  !.evicted = Cardinality(DOMAIN cache)
                     - Cardinality(DOMAIN cache_clear_expired(cache, now))]
    /\ UNCHANGED not_cache_vars

CallCacheGetStats ==
    /\ last' = [NoCall EXCEPT !.op = "cache_get_stats", !.at = now,
                  !.remaining = cache_get_stats(cache, now).total_entries,
                  !.stats = Some(cache_get_stats(cache, now))]
    /\ UNCHANGED <<cache, not_cache_vars>>

CacheNext ==
    \/ CacheTick
    \/ \E shape \in CacheShapes : CallCacheGet(shape)
    \/ \E shape \in StoredShapes, data \in CachePayloads, ttl \in 0..MaxTtl :
          CallCacheSet(shape, data, ttl)
    \/ CallCacheClear
    \/ CallCacheClearExpired
    \/ CallCacheGetStats

SpecCache == CacheInit /\ [][CacheNext]_vars

\* ---- the monitoring surface of the client, over the limiter and the cache

\* api_football_client.py:498-500  the dict returned
get_rate_limiter_stats(reqs, t, tw, mr) == get_stats(reqs, t, tw, mr)

\* api_football_client.py:502-504  the dict returned
get_cache_stats(ch, t) == cache_get_stats(ch, t)

\* rate_limiter.py:48-56  the deque after get_stats(): pruned at line 50, and
\* again inside get_wait_time()
limiter_after_get_stats(reqs, t, tw) ==
    _clean_old_requests(_clean_old_requests(reqs, t, tw), t, tw)

GetRateLimiterStats ==
    LET stats == get_rate_limiter_stats(requests, now, time_window, max_requests) IN
    /\ requests' = limiter_after_get_stats(requests, now, time_window)
    /\ last' = [NoCall EXCEPT !.op = "get_rate_limiter_stats", !.at = now,
                  !.remaining = stats.remaining_requests,
                  !.wait = stats.wait_time_seconds,
                  !.evicted = Len(requests)
                     - Len(limiter_after_get_stats(requests, now, time_window))]
    /\ UNCHANGED <<now, max_requests, time_window, permit, admitted, client_vars>>

GetCacheStats ==
    /\ last' = [NoCall EXCEPT !.op = "get_cache_stats", !.at = now,
                  !.remaining = get_cache_stats(cache, now).total_entries]
    /\ UNCHANGED <<cache, not_cache_vars>>

\* the one (endpoint, params) stored while the monitoring surface is observed
StatsShapes == { <<"/teams", << <<"country", "fr">> >> >> }

\* the limiter and the cache are given something to hold, then observed
StatsNext ==
    \/ Tick
    \/ CallCanMakeRequest
    \/ CallAddRequest
    \/ \E shape \in StatsShapes : CallCacheSet(shape, "a", 1)
    \/ GetRateLimiterStats
    \/ GetCacheStats

SpecStats == LimiterInit /\ [][StatsNext]_vars

\* ====================================================== APIFootballClient

\* the (endpoint, params) a caller asks for; params is the dict in the order
\* its items were inserted
Shapes ==
    { <<"/leagues", << <<"country", "fr">>, <<"season", "2023">> >> >>,
      <<"/leagues", << <<"season", "2023">>, <<"country", "fr">> >> >>,
      <<"/teams", <<>> >> }

\* the body of a response: JSON text whose 'errors' field is missing, empty
\* or non-empty, or text that is not JSON
Bodies ==
    { [json |-> TRUE, response |-> "a", errors |-> "empty"],
      [json |-> TRUE, response |-> "b", errors |-> "missing"],
      [json |-> TRUE, response |-> "a", errors |-> "nonempty"],
      [json |-> FALSE, response |-> "", errors |-> "missing"] }
NoBody == [json |-> FALSE, response |-> "", errors |-> "missing"]

\* api_football_client.py:98  data = response.json(): the parsed body, or
\* None where the parser raises json.JSONDecodeError
response_json(body) ==
    IF body.json THEN Some([response |-> body.response, errors |-> body.errors])
    ELSE None

\* the exception response.json() raises; none of the handlers of lines
\* 125-133 catches it
JSONDecodeError ==
    [type |-> "JSONDecodeError", what |-> "", status |-> 200, attempts |-> 0,
     last_error |-> None]

\* what `await self.client.get(url, params=params)` ends with: one of the two
\* httpx exceptions the loop catches, or a response with a status code
Outcomes ==
    { [kind |-> "TimeoutException", status |-> 0, data |-> NoBody],
      [kind |-> "RequestError", status |-> 0, data |-> NoBody] }
    \cup { [kind |-> "response", status |-> 200, data |-> b] : b \in Bodies }
    \cup { [kind |-> "response", status |-> st, data |-> NoBody] : st \in {429, 499, 500} }

\* api_football_client.py:12-14, with what each raise site formats into the
\* message: the status (lines 118, 121-123), and for the aggregate error the
\* attempt count and last_exception (lines 136-138)
APIFootballException(what, status, attempts, last_error) ==
    [type |-> "APIFootballException", what |-> what, status |-> status,
     attempts |-> attempts, last_error |-> last_error]

\* api_football_client.py:62-63, 80: a call that has just been entered
NewCall(shape, use_cache) ==
    [pc |-> "entered", endpoint |-> shape[1], params |-> shape[2],
     use_cache |-> use_cache, attempt |-> 0, last_exception |-> None,
     wake |-> 0, issued |-> 0, result |-> None, error |-> None,
     \* observations of this call
     hit |-> FALSE, waited |-> None, outcomes |-> <<>>, sleeps |-> <<>>,
     n_check |-> 0, n_add |-> 0, n_net |-> 0, n_set |-> 0]

\* every attempt issued as attempt 0
IssueAttempt_restart(k, i) ==
    [k EXCEPT !.pc = "net", !.attempt = 0, !.issued = now, !.wake = 0,
              !.n_add = @ + 1, !.n_net = @ + 1]

\* api_football_client.py:83-94  attempt i up to its await: the timestamp is
\* recorded, then the request is issued
IssueAttempt(k, i) ==
    [k EXCEPT !.pc = "net", !.attempt = i, !.issued = now, !.wake = 0,
              !.n_add = @ + 1, !.n_net = @ + 1]

\* api_football_client.py:88-92
ClientAfterAttempt == IF client = None THEN Some("AsyncClient") ELSE client

\* the 499 branch (lines 116-118) lost: 499 falls into the 429 branch
classify_quota_retried(o) ==
    IF o.kind # "response" THEN "transport_error"
    ELSE IF o.status = 200
         THEN IF response_json(o.data) = None THEN "decode_error"
              ELSE IF response_json(o.data)[1].errors = "nonempty" THEN "api_error"
              ELSE "success"
    ELSE IF o.status \in {429, 499} THEN "throttled"
    ELSE "http_error"

\* the 'errors' test (lines 101-102) lost: every 200 is a success
classify_errors_ignored(o) ==
    IF o.kind # "response" THEN "transport_error"
    ELSE IF o.status = 200
         THEN IF response_json(o.data) = None THEN "decode_error" ELSE "success"
    ELSE IF o.status = 429 THEN "throttled"
    ELSE IF o.status = 499 THEN "quota"
    ELSE "http_error"

\* api_football_client.py:97-133  what the loop body does with the outcome of
\* the network call
classify(o) ==
    IF o.kind # "response" THEN "transport_error"
    ELSE IF o.status = 200
         THEN IF response_json(o.data) = None THEN "decode_error"
              ELSE IF response_json(o.data)[1].errors = "nonempty" THEN "api_error"
              ELSE "success"
    ELSE IF o.status = 429 THEN "throttled"
    ELSE IF o.status = 499 THEN "quota"
    ELSE "http_error"

\* the loop running one time too many
in_range_inclusive(i) == i <= max_retries

\* api_football_client.py:81  for attempt in range(self.settings.max_retries)
in_range(i) == i < max_retries

\* the 429 branch sleeping as the exception handlers do
throttle_delay_as_error(i) == 2 * (i + 1)

\* api_football_client.py:110-113 and 125-133: the delay slept after attempt i
throttle_delay(i) == 5 * (i + 1)
error_delay(i) == 2 * (i + 1)

\* APIFootballClient(): api_football_client.py:19-30, with the module-level
\* cache_service (cache_service.py:69)
ClientInit ==
    /\ now = 0
    /\ max_requests = ModelRate
    /\ time_window = ModelWindow
    /\ requests = <<>>
    /\ cache = EmptyCache
    /\ client = None
    /\ handles = <<>>
    /\ call = [c \in {"A"} |-> NoTask]
    /\ last = NoCall
    /\ permit = FALSE
    /\ admitted = <<>>

limiter_obs == <<last, permit, admitted>>

\* a coroutine that can run delays the clock: one suspended in a sleep or in
\* the network call once it is Jitter seconds late, one that has ended until
\* its caller has taken the result or the exception
Overdue(k) ==
    \/ k.pc \in {"wait", "backoff"} /\ now >= k.wake + Jitter
    \/ k.pc = "net" /\ now >= k.issued + Jitter
    \/ k.pc \in {"returned", "raised", "cancelled"}

\* The client's clock is kept relative to the present: `now` stays where it
\* is and one second passing moves every stored time one second into the
\* past. The code only ever compares a stored time with now or with
\* now - time_window, so a time is not followed further back than the point
\* where those comparisons are settled for good.
Earlier(t, floor) == Max(t - 1, floor)

ClockTick ==
    /\ \A c \in DOMAIN call : ~Overdue(call[c])
    /\ requests' = [i \in DOMAIN requests |->
                      Earlier(requests[i], now - (time_window + 1))]
    /\ cache' = [key \in DOMAIN cache |->
                   [cache[key] EXCEPT !.expires_at = Earlier(@, now),
                                      !.created_at = Earlier(@, now - ModelTtl)]]
    /\ call' = [c \in DOMAIN call |->
                  IF call[c].pc \in {"wait", "backoff"}
                  THEN [call[c] EXCEPT !.wake = @ - 1]
                  ELSE IF call[c].pc = "net"
                  THEN [call[c] EXCEPT !.issued = @ - 1]
                  ELSE call[c]]
    /\ UNCHANGED <<now, max_requests, time_window, client, limiter_obs, handles>>

\* api_football_client.py:62-94  _make_request from its entry to its first
\* await: the cache lookup, the limiter check, and either the sleep of the
\* limiter's wait or attempt 0 up to the network call
Begin(c, shape, use_cache) ==
    LET k == NewCall(shape, use_cache)
        cached_data == cache_get(cache, k.endpoint, k.params, now)
        cache1 == IF use_cache THEN cache_after_get(cache, k.endpoint, k.params, now)
                  ELSE cache
        can == can_make_request(requests, now, time_window, max_requests)
        reqs1 == _clean_old_requests(requests, now, time_window)
        wait_time == get_wait_time(reqs1, now, time_window, max_requests)
        k1 == [k EXCEPT !.n_check = 1]
    IN
    /\ call[c].pc = "idle"
    /\ Len(reqs1) <= MaxQueue
    /\ cache' = cache1
    /\ IF use_cache /\ cached_data # None
       THEN /\ call' = [call EXCEPT ![c] =
                          [k EXCEPT !.pc = "returned", !.result = cached_data, !.hit = TRUE]]
            /\ UNCHANGED <<requests, client>>
       ELSE IF ~can /\ wait_time # None /\ wait_time[1] > 0
       THEN /\ call' = [call EXCEPT ![c] =
                          [k1 EXCEPT !.pc = "wait", !.wake = now + wait_time[1],
                                     !.waited = wait_time]]
            /\ requests' = reqs1
            /\ UNCHANGED client
       ELSE /\ call' = [call EXCEPT ![c] = IssueAttempt(k1, 0)]
            /\ requests' = add_request(reqs1, now)
            /\ client' = ClientAfterAttempt
    /\ UNCHANGED <<now, max_requests, time_window, limiter_obs, handles>>

\* the limiter consulted again when the wait is over, and the wait repeated
\* while it denies
AfterWait_rechecks(c) ==
    LET can == can_make_request(requests, now, time_window, max_requests)
        reqs1 == _clean_old_requests(requests, now, time_window)
        wait_time == get_wait_time(reqs1, now, time_window, max_requests)
        k1 == [call[c] EXCEPT !.n_check = @ + 1]
    IN
    /\ call[c].pc = "wait"
    /\ now >= call[c].wake
    /\ IF ~can /\ wait_time # None /\ wait_time[1] > 0
       THEN /\ call' = [call EXCEPT ![c] = [k1 EXCEPT !.wake = now + wait_time[1]]]
            /\ requests' = reqs1
            /\ UNCHANGED client
       ELSE /\ call' = [call EXCEPT ![c] = IssueAttempt(k1, 0)]
            /\ requests' = add_request(reqs1, now)
            /\ client' = ClientAfterAttempt
    /\ UNCHANGED <<now, max_requests, time_window, cache, limiter_obs, handles>>

\* api_football_client.py:77-94  the limiter's wait is over: attempt 0
AfterWait(c) ==
    /\ call[c].pc = "wait"
    /\ now >= call[c].wake
    /\ call' = [call EXCEPT ![c] = IssueAttempt(call[c], 0)]
    /\ requests' = add_request(requests, now)
    /\ client' = ClientAfterAttempt
    /\ UNCHANGED <<now, max_requests, time_window, cache, limiter_obs, handles>>

\* api_football_client.py:94-133  the network call of the attempt ends with
\* outcome o, which is classified
Respond(c, o) ==
    LET k == [call[c] EXCEPT !.outcomes = Append(@, o), !.issued = 0]
        i == k.attempt
        class == classify(o)
    IN
    /\ call[c].pc = "net"
    /\ call' = [call EXCEPT ![c] =
         CASE class = "success" ->
                [k EXCEPT !.pc = "returned", !.result = response_json(o.data),
                          !.n_set = IF k.use_cache THEN @ + 1 ELSE @]
           [] class = "decode_error" ->
                [k EXCEPT !.pc = "raised", !.error = Some(JSONDecodeError)]
           [] class = "api_error" ->
                [k EXCEPT !.pc = "raised",
                   !.error = Some(APIFootballException("API Error", 200, 0, None))]
           [] class = "throttled" ->
                [k EXCEPT !.pc = "backoff", !.wake = now + throttle_delay(i),
                          !.sleeps = Append(@, throttle_delay(i))]
           [] class = "quota" ->
                [k EXCEPT !.pc = "raised",
                   !.error = Some(APIFootballException("API quota exceeded", 499, 0, None))]
           [] class = "http_error" ->
                [k EXCEPT !.pc = "raised",
                   !.error = Some(APIFootballException("HTTP", o.status, 0, None))]
           [] class = "transport_error" ->
                [k EXCEPT !.pc = "backoff", !.last_exception = Some(o.kind),
                          !.wake = now + error_delay(i),
                          !.sleeps = Append(@, error_delay(i))]]
    /\ cache' = IF class = "success" /\ k.use_cache
                THEN cache_set(cache, k.endpoint, k.params, response_json(o.data)[1],
                               ModelTtl, now)
                ELSE cache
    /\ UNCHANGED <<now, requests, max_requests, time_window, client, limiter_obs, handles>>

\* api_football_client.py:81-94, 135-138  the sleep after attempt i is over:
\* the loop goes to attempt i+1, or ends and the aggregate error is raised
AfterBackoff(c) ==
    LET k == call[c]
        i == k.attempt + 1
    IN
    /\ k.pc = "backoff"
    /\ now >= k.wake
    /\ IF in_range(i)
       THEN /\ call' = [call EXCEPT ![c] = IssueAttempt(k, i)]
            /\ requests' = add_request(requests, now)
            /\ client' = ClientAfterAttempt
       ELSE /\ call' = [call EXCEPT ![c] = [k EXCEPT !.pc = "raised", !.wake = 0,
                  !.error = Some(APIFootballException("Failed after attempts", 0,
                                                      max_retries, k.last_exception))]]
            /\ UNCHANGED <<requests, client>>
    /\ UNCHANGED <<now, max_requests, time_window, cache, limiter_obs, handles>>

\* the caller of _make_request receives what it returned or raised
Finish(c) ==
    /\ call[c].pc \in {"returned", "raised", "cancelled"}
    /\ call' = [call EXCEPT ![c] = NoTask]
    /\ UNCHANGED <<now, requests, max_requests, time_window, cache, client, limiter_obs, handles>>

Next ==
    \/ ClockTick
    \/ \E c \in DOMAIN call, shape \in Shapes, use_cache \in BOOLEAN : Begin(c, shape, use_cache)
    \/ \E c \in DOMAIN call : AfterWait(c)
    \/ \E c \in DOMAIN call, o \in Outcomes : Respond(c, o)
    \/ \E c \in DOMAIN call : AfterBackoff(c)
    \/ \E c \in DOMAIN call : Finish(c)

Spec == ClientInit /\ [][Next]_vars

\* ---- the client running two tasks at once

\* the two tasks ask for the same endpoint with the same parameters, inserted
\* in either order
PairShapes ==
    { <<"/leagues", << <<"country", "fr">>, <<"season", "2023">> >> >>,
      <<"/leagues", << <<"season", "2023">>, <<"country", "fr">> >> >> }

\* what their network calls end with: a timeout, or 200 with one of two payloads
PairOutcomes ==
    { [kind |-> "TimeoutException", status |-> 0, data |-> NoBody],
      [kind |-> "response", status |-> 200,
       data |-> [json |-> TRUE, response |-> "a", errors |-> "empty"]],
      [kind |-> "response", status |-> 200,
       data |-> [json |-> TRUE, response |-> "b", errors |-> "missing"]] }

\* the module-level api_football_client (api_football_client.py:507) used by
\* two request handlers at once
PairInit ==
    /\ now = 0
    /\ max_requests = ModelRate + 1
    /\ time_window = ModelWindow
    /\ requests = <<>>
    /\ cache = EmptyCache
    /\ client = None
    /\ handles = <<>>
    /\ call = [c \in {"A", "B"} |-> NoTask]
    /\ last = NoCall
    /\ permit = FALSE
    /\ admitted = <<>>

PairNext ==
    \/ ClockTick
    \/ \E c \in DOMAIN call, shape \in PairShapes : Begin(c, shape, TRUE)
    \/ \E c \in DOMAIN call : AfterWait(c)
    \/ \E c \in DOMAIN call, o \in PairOutcomes : Respond(c, o)
    \/ \E c \in DOMAIN call : AfterBackoff(c)
    \/ \E c \in DOMAIN call : Finish(c)

SpecPair == PairInit /\ [][PairNext]_vars

\* ---- the client under the event loop's scheduling

FairTasks == {"A"}
FairShapes == { <<"/teams", <<>> >> }

FairInit ==
    /\ now = 0
    /\ max_requests = ModelRate
    /\ time_window = ModelWindow
    /\ requests = <<>>
    /\ cache = EmptyCache
    /\ client = None
    /\ handles = <<>>
    /\ call = [c \in FairTasks |-> NoTask]
    /\ last = NoCall
    /\ permit = FALSE
    /\ admitted = <<>>

FairNext ==
    \/ ClockTick
    \/ \E c \in FairTasks, shape \in FairShapes, use_cache \in BOOLEAN :
          Begin(c, shape, use_cache)
    \/ \E c \in FairTasks : AfterWait(c)
    \/ \E c \in FairTasks, o \in Outcomes : Respond(c, o)
    \/ \E c \in FairTasks : AfterBackoff(c)
    \/ \E c \in FairTasks : Finish(c)

\* time passes, however many calls are entered and answered in between (the
\* clock is held back only for as long as some coroutine has a step to take,
\* hence the strong fairness); asyncio.sleep (lines 77, 113, 128, 133) returns
\* once its delay has elapsed; the network call of line 94 ends, with a response or, after
\* api_football_timeout seconds at the latest (lines 89-92,
\* api_football_config.py:7), with httpx.TimeoutException; the awaiting caller
\* is resumed with what the call returned or raised
SpecFair ==
    /\ FairInit
    /\ [][FairNext]_vars
    /\ SF_vars(ClockTick)
    /\ \A c \in FairTasks :
          /\ WF_vars(AfterWait(c))
          /\ WF_vars(\E o \in Outcomes : Respond(c, o))
          /\ WF_vars(AfterBackoff(c))
          /\ WF_vars(Finish(c))

\* ---- the client with a caller that may cancel the task

\* a cancellation that takes back the timestamp of the attempt it interrupts
Cancel_rollback(c) ==
    /\ call[c].pc \in {"wait", "backoff", "net"}
    /\ call' = [call EXCEPT ![c] = [@ EXCEPT !.pc = "cancelled", !.wake = 0, !.issued = 0]]
    /\ requests' = IF call[c].pc = "net" /\ requests # <<>>
                   THEN SubSeq(requests, 1, Len(requests) - 1)
                   ELSE requests
    /\ UNCHANGED <<now, max_requests, time_window, cache, client, limiter_obs, handles>>

\* api_football_client.py:77, 94, 113, 128, 133  the task is cancelled while it
\* is suspended in one of the awaits: asyncio.CancelledError is raised there,
\* no handler of _make_request catches it and there is no finally, so the
\* coroutine ends and nothing else runs
Cancel(c) ==
    /\ call[c].pc \in {"wait", "backoff", "net"}
    /\ call' = [call EXCEPT ![c] = [@ EXCEPT !.pc = "cancelled", !.wake = 0, !.issued = 0]]
    /\ UNCHANGED <<now, requests, max_requests, time_window, cache, client, limiter_obs, handles>>

NextCancel ==
    \/ Next
    \/ \E c \in DOMAIN call : Cancel(c)

SpecCancel == ClientInit /\ [][NextCancel]_vars

\* ---- the client behind the controller's `async with api_football_client`

\* a handle as __aenter__ creates it: open, with no request in flight
NewHandle == [state |-> "open", users |-> {}]

\* api_football_client.py:40-43  __aexit__: self.client is set, so it is
\* closed; self.client keeps referring to it
aexit(hs, cl) == IF cl # None THEN [hs EXCEPT ![cl[1]].state = "closed"] ELSE hs

\* the request of task c is in flight on handle h, and is no longer
send(hs, h, c) == [hs EXCEPT ![h].users = @ \cup {c}]
done(hs, c) == [h \in DOMAIN hs |-> [hs[h] EXCEPT !.users = @ \ {c}]]

\* what AsyncClient.get raises, before anything is sent, on a handle that
\* has been closed; none of the handlers of lines 125-133 catches it
RuntimeError ==
    [type |-> "RuntimeError", what |-> "client has been closed", status |-> 0,
     attempts |-> 0, last_error |-> None]

\* the module-level api_football_client (api_football_client.py:507) behind
\* the request handlers of the controller, two of them running at once
ScopeInit ==
    /\ now = 0
    /\ max_requests = ModelRate + 1
    /\ time_window = ModelWindow
    /\ requests = <<>>
    /\ cache = EmptyCache
    /\ client = None
    /\ handles = <<>>
    /\ call = [c \in {"A", "B"} |-> NoTask]
    /\ last = NoCall
    /\ permit = FALSE
    /\ admitted = <<>>

\* api_football_client.py:83-94  attempt i of task c up to its await, on the
\* handle self.client refers to at this instant (it is never None inside a
\* scope, so lines 88-92 create nothing): the timestamp is recorded, then the
\* request is sent, or get raises because the handle is closed and the
\* exception leaves the scope through __aexit__
HandlerAttempt(c, k, i) ==
    /\ requests' = add_request(requests, now)
    /\ IF handles[client[1]].state = "closed"
       THEN /\ call' = [call EXCEPT ![c] =
                          [k EXCEPT !.pc = "raised", !.attempt = i, !.wake = 0,
                                    !.n_add = @ + 1, !.error = Some(RuntimeError)]]
            /\ handles' = aexit(handles, client)
       ELSE /\ call' = [call EXCEPT ![c] = IssueAttempt(k, i)]
            /\ handles' = send(handles, client[1], c)

\* api_football_controller.py:20-22 with api_football_client.py:32-38 and
\* 62-94  a request handler from `async with`, through __aenter__, which
\* stores a new handle in self.client, to the first await of _make_request;
\* on a cache hit the handler returns and __aexit__ runs at once
HandlerBegin(c, shape) ==
    LET h == Len(handles) + 1
        hs1 == Append(handles, NewHandle)
        k == NewCall(shape, TRUE)
        cached_data == cache_get(cache, k.endpoint, k.params, now)
        can == can_make_request(requests, now, time_window, max_requests)
        reqs1 == _clean_old_requests(requests, now, time_window)
        wait_time == get_wait_time(reqs1, now, time_window, max_requests)
        k1 == [k EXCEPT !.n_check = 1]
    IN
    /\ call[c].pc = "idle"
    /\ Len(handles) < MaxHandles
    /\ Len(reqs1) <= MaxQueue
    /\ client' = Some(h)
    /\ cache' = cache_after_get(cache, k.endpoint, k.params, now)
    /\ IF cached_data # None
       THEN /\ call' = [call EXCEPT ![c] =
                          [k EXCEPT !.pc = "returned", !.result = cached_data, !.hit = TRUE]]
            /\ handles' = aexit(hs1, Some(h))
            /\ UNCHANGED requests
       ELSE IF ~can /\ wait_time # None /\ wait_time[1] > 0
       THEN /\ call' = [call EXCEPT ![c] =
                          [k1 EXCEPT !.pc = "wait", !.wake = now + wait_time[1],
                                     !.waited = wait_time]]
            /\ handles' = hs1
            /\ requests' = reqs1
       ELSE /\ call' = [call EXCEPT ![c] = IssueAttempt(k1, 0)]
            /\ handles' = send(hs1, h, c)
            /\ requests' = add_request(reqs1, now)
    /\ UNCHANGED <<now, max_requests, time_window, limiter_obs>>

\* api_football_client.py:77-94  the limiter's wait is over: attempt 0
HandlerAfterWait(c) ==
    /\ call[c].pc = "wait"
    /\ now >= call[c].wake
    /\ HandlerAttempt(c, call[c], 0)
    /\ UNCHANGED <<now, max_requests, time_window, cache, client, limiter_obs>>

\* api_football_client.py:94-133 with api_football_controller.py:22-25 and
\* api_football_client.py:40-43  the network call of the attempt ends with
\* outcome o; when _make_request returns or raises, the handler leaves the
\* scope and __aexit__ closes the handle self.client refers to then
HandlerRespond(c, o) ==
    LET k == [call[c] EXCEPT !.outcomes = Append(@, o), !.issued = 0]
        i == k.attempt
        class == classify(o)
        hs1 == done(handles, c)
    IN
    /\ call[c].pc = "net"
    /\ call' = [call EXCEPT ![c] =
         CASE class = "success" ->
                [k EXCEPT !.pc = "returned", !.result = response_json(o.data),
                          !.n_set = @ + 1]
           [] class = "decode_error" ->
                [k EXCEPT !.pc = "raised", !.error = Some(JSONDecodeError)]
           [] class = "api_error" ->
                [k EXCEPT !.pc = "raised",
                   !.error = Some(APIFootballException("API Error", 200, 0, None))]
           [] class = "throttled" ->
                [k EXCEPT !.pc = "backoff", !.wake = now + throttle_delay(i),
                          !.sleeps = Append(@, throttle_delay(i))]
           [] class = "quota" ->
                [k EXCEPT !.pc = "raised",
                   !.error = Some(APIFootballException("API quota exceeded", 499, 0, None))]
           [] class = "http_error" ->
                [k EXCEPT !.pc = "raised",
                   !.error = Some(APIFootballException("HTTP", o.status, 0, None))]
           [] class = "transport_error" ->
                [k EXCEPT !.pc = "backoff", !.last_exception = Some(o.kind),
                          !.wake = now + error_delay(i),
                          !.sleeps = Append(@, error_delay(i))]]
    /\ cache' = IF class = "success"
                THEN cache_set(cache, k.endpoint, k.params, response_json(o.data)[1],
                               ModelTtl, now)
                ELSE cache
    /\ handles' = IF class \in {"throttled", "transport_error"} THEN hs1
                  ELSE aexit(hs1, client)
    /\ UNCHANGED <<now, requests, max_requests, time_window, client, limiter_obs>>

\* api_football_client.py:81-94, 135-138  the sleep after attempt i is over:
\* attempt i+1, or the aggregate error, which leaves the scope
HandlerAfterBackoff(c) ==
    LET k == call[c]
        i == k.attempt + 1
    IN
    /\ k.pc = "backoff"
    /\ now >= k.wake
    /\ IF in_range(i)
       THEN HandlerAttempt(c, k, i)
       ELSE /\ call' = [call EXCEPT ![c] = [k EXCEPT !.pc = "raised", !.wake = 0,
                  !.error = Some(APIFootballException("Failed after attempts", 0,
                                                      max_retries, k.last_exception))]]
            /\ handles' = aexit(handles, client)
            /\ UNCHANGED requests
    /\ UNCHANGED <<now, max_requests, time_window, cache, client, limiter_obs>>

ScopeNext ==
    \/ ClockTick
    \/ \E c \in DOMAIN call, shape \in FairShapes : HandlerBegin(c, shape)
    \/ \E c \in DOMAIN call : HandlerAfterWait(c)
    \/ \E c \in DOMAIN call, o \in PairOutcomes : HandlerRespond(c, o)
    \/ \E c \in DOMAIN call : HandlerAfterBackoff(c)
    \/ \E c \in DOMAIN call : Finish(c)

SpecScope == ScopeInit /\ [][ScopeNext]_vars

\* -------------------------------------------------------- client properties

Task(c) == call[c]
Key(k) == _generate_key(k.endpoint, k.params)
\* the cache holds an entry for the call's fingerprint that has not expired
HoldsValid(ch, k) == Key(k) \in DOMAIN ch /\ now < ch[Key(k)].expires_at
NumOutcomes(k) == Len(k.outcomes)
LastOutcome(k) == k.outcomes[Len(k.outcomes)]
Is429(o) == o.kind = "response" /\ o.status = 429
IsTransportError(o) == o.kind \in {"TimeoutException", "RequestError"}
Retryable(o) == Is429(o) \/ IsTransportError(o)
IsGood200(o) ==
    o.kind = "response" /\ o.status = 200 /\ o.data.json /\ o.data.errors # "nonempty"
IsBad200(o) ==
    o.kind = "response" /\ o.status = 200 /\ o.data.json /\ o.data.errors = "nonempty"
\* the payload of a 200 response with a JSON body
Payload(o) == [response |-> o.data.response, errors |-> o.data.errors]
IsFatalStatus(o) == o.kind = "response" /\ o.status \notin {200, 429}
AllRetryable(s) == \A j \in 1..Len(s) : Retryable(s[j])
Exhausted(k) == k.pc = "raised" /\ k.error[1].what = "Failed after attempts"

\* C1: a call entered with use_cache=True while the cache holds a valid entry
\* for its fingerprint returns that entry's payload in the same step, with no
\* network call and no limiter call; the deque, the cache and the transport
\* handle are left as they were.
C1_CacheHitFastPath ==
    [][\A c \in DOMAIN call :
         (call[c].pc = "idle" /\ call'[c].pc # "idle"
            /\ call'[c].use_cache /\ HoldsValid(cache, call'[c]))
         => /\ call'[c].pc = "returned"
            /\ call'[c].result = Some(cache[Key(call'[c])].data)
            /\ call'[c].n_net = 0 /\ call'[c].n_check = 0 /\ call'[c].n_add = 0
            /\ call'[c].waited = None /\ call'[c].sleeps = <<>>
            /\ requests' = requests /\ cache' = cache /\ client' = client]_vars

\* a call has returned from the cache while the limiter's window was full
C1_Witness ==
    \E c \in DOMAIN call :
        /\ Task(c).pc = "returned" /\ Task(c).hit /\ Task(c).n_net = 0
        /\ Task(c).result = Some([response |-> "b", errors |-> "missing"])
        /\ ~can_make_request(requests, now, time_window, max_requests)

\* C2: a call whose attempt gets HTTP 200 without application error, after
\* only retryable outcomes, returns that payload, and with use_cache the cache
\* then holds that payload, valid, under the call's fingerprint.
C2_RetryThenSuccess ==
    \A c \in DOMAIN call :
        LET k == Task(c) IN
        (NumOutcomes(k) > 0 /\ IsGood200(LastOutcome(k))) =>
            /\ k.pc = "returned"
            /\ k.result = Some(Payload(LastOutcome(k)))
            /\ NumOutcomes(k) <= max_retries
            /\ AllRetryable(SubSeq(k.outcomes, 1, NumOutcomes(k) - 1))
            /\ k.use_cache =>
                  /\ HoldsValid(cache, k)
                  /\ cache[Key(k)].data = Payload(LastOutcome(k))
                  /\ cache_get(cache, k.endpoint, k.params, now) = k.result

\* 429, 429, then 200: the payload is returned and cached
C2_Witness ==
    \E c \in DOMAIN call :
        LET k == Task(c) IN
        /\ NumOutcomes(k) = max_retries
        /\ Is429(k.outcomes[1]) /\ Is429(k.outcomes[2]) /\ IsGood200(k.outcomes[3])
        /\ k.use_cache /\ k.pc = "returned"
        /\ cache[Key(k)].data = Payload(k.outcomes[3])

\* C3: a call whose attempt gets a status other than 200 and 429 has raised
\* APIFootballException in that attempt: no later network call, no backoff
\* after it, no cache write.
C3_FatalStatus ==
    \A c \in DOMAIN call :
        LET k == Task(c) IN
        (NumOutcomes(k) > 0 /\ IsFatalStatus(LastOutcome(k))) =>
            /\ k.pc = "raised"
            /\ k.error[1].type = "APIFootballException"
            /\ k.error[1].status = LastOutcome(k).status
            /\ k.n_net = NumOutcomes(k)
            /\ Len(k.sleeps) = NumOutcomes(k) - 1
            /\ k.n_set = 0
            /\ k.use_cache => ~HoldsValid(cache, k)

\* 499 on the first attempt
C3_Witness ==
    \E c \in DOMAIN call :
        LET k == Task(c) IN
        /\ NumOutcomes(k) = 1 /\ k.outcomes[1].status = 499
        /\ k.use_cache /\ k.pc = "raised" /\ k.n_net = 1 /\ k.sleeps = <<>>

\* C4: a call whose attempt gets HTTP 200 with a non-empty 'errors' field has
\* raised APIFootballException in that attempt: no later attempt although
\* attempts remain, no backoff after it, nothing stored in the cache.
C4_ApplicationErrorFatal ==
    \A c \in DOMAIN call :
        LET k == Task(c) IN
        (NumOutcomes(k) > 0 /\ IsBad200(LastOutcome(k))) =>
            /\ k.pc = "raised"
            /\ k.error[1].type = "APIFootballException"
            /\ k.error[1].what = "API Error"
            /\ k.result = None
            /\ k.n_net = NumOutcomes(k)
            /\ Len(k.sleeps) = NumOutcomes(k) - 1
            /\ k.n_set = 0
            /\ k.use_cache => ~HoldsValid(cache, k)

\* an application error on the first of the three attempts
C4_Witness ==
    \E c \in DOMAIN call :
        LET k == Task(c) IN
        /\ NumOutcomes(k) = 1 /\ IsBad200(k.outcomes[1])
        /\ k.use_cache /\ k.pc = "raised" /\ k.n_net = 1 /\ k.attempt + 1 < max_retries

\* C5: no call issues more than max_retries network calls; a call all of
\* whose outcomes are retryable goes on until it has issued exactly
\* max_retries of them, and then raises the aggregate error.
C5_RetryBound ==
    \A c \in DOMAIN call :
        LET k == Task(c) IN
        /\ k.n_net <= max_retries
        /\ NumOutcomes(k) <= k.n_net
        /\ (k.pc = "raised" /\ NumOutcomes(k) > 0 /\ AllRetryable(k.outcomes)) =>
              (k.n_net = max_retries /\ NumOutcomes(k) = max_retries /\ Exhausted(k))
        /\ Exhausted(k) =>
              (k.n_net = max_retries /\ AllRetryable(k.outcomes)
                 /\ k.error[1].type = "APIFootballException")
        /\ (k.pc \in {"net", "backoff"}) => AllRetryable(k.outcomes)

\* three timeouts, then the aggregate error
C5_Witness ==
    \E c \in DOMAIN call :
        LET k == Task(c) IN
        /\ Exhausted(k) /\ k.n_net = max_retries
        /\ \A j \in 1..max_retries : k.outcomes[j].kind = "TimeoutException"

\* what a retryable outcome is reported as
Transient(o) == IF Is429(o) THEN "429" ELSE o.kind

\* C6: the aggregate error names max_retries and the last transient error the
\* call observed, a 429 counting as one.
C6_AggregateNamesLastTransient ==
    \A c \in DOMAIN call :
        LET k == Task(c) IN
        Exhausted(k) =>
            /\ k.error[1].attempts = max_retries
            /\ k.error[1].last_error = Some(Transient(LastOutcome(k)))

\* ------------------------------------------------------- limiter properties

\* how many of the timestamps of s lie in [lo, hi]
CountIn(s, lo, hi) == Cardinality({i \in 1..Len(s) : lo <= s[i] /\ s[i] <= hi})

\* the window as the next query would prune it
Pruned == _clean_old_requests(requests, now, time_window)
Remaining == get_stats(requests, now, time_window, max_requests).remaining_requests
AtCapacity == Len(Pruned) >= max_requests

\* C7: with every add_request preceded by a can_make_request() that returned
\* True, no time_window-wide interval holds more than max_requests recorded
\* timestamps, can_make_request() returns False exactly when max_requests of
\* them lie in the trailing window, and the window never holds more than
\* max_requests timestamps of the trailing time_window.
C7_AdmissionBound ==
    /\ \A t \in 0..now : CountIn(admitted, t, t + time_window) <= max_requests
    /\ CountIn(requests, now - time_window, now) <= max_requests
    /\ (last.op = "can_make_request" /\ last.at = now) =>
          /\ last.can = (CountIn(admitted, now - time_window, now) < max_requests)
          /\ (~last.can => CountIn(admitted, now - time_window, now) = max_requests)

C7_Witness ==
    /\ last.op = "can_make_request" /\ last.at = now /\ ~last.can
    /\ max_requests = 2
    /\ Len(admitted) > max_requests

\* the recorded timestamps that are at most time_window old at time t
Trailing(t) == {i \in 1..Len(admitted) : admitted[i] >= t - time_window}
Earliest(t) == CHOOSE ts \in {admitted[i] : i \in Trailing(t)} :
                 \A i \in Trailing(t) : ts <= admitted[i]
\* how many recorded timestamps equal the earliest one of the window
Copies(t) == Cardinality({i \in Trailing(t) : admitted[i] = Earliest(t)})
\* the limiter is at capacity and this step takes the clock just past the
\* earliest timestamp of its window + time_window
SlidesPastEarliest ==
    /\ Cardinality(Trailing(now)) >= max_requests
    /\ now' = Earliest(now) + time_window + 1

\* C8 as stated: at capacity, when the clock passes (earliest + time_window)
\* by one tick, the pruned window shrinks by exactly one and
\* remaining_requests grows by exactly one.
C8_RestoredByExactlyOne ==
    [][SlidesPastEarliest =>
         /\ Len(Pruned) = Cardinality(Trailing(now))
         /\ Len(Pruned') = Len(Pruned) - 1
         /\ Remaining' = Remaining + 1]_vars

\* C8 amended: the pruned window shrinks, and remaining_requests grows, by the
\* number of timestamps equal to the earliest one; that is exactly one when
\* the earliest timestamp is strictly older than the next.
C8_RestoredByHeadCopies ==
    [][SlidesPastEarliest =>
         /\ Len(Pruned) = Cardinality(Trailing(now))
         /\ Len(Pruned') = Cardinality(Trailing(now)) - Copies(now)
         /\ Remaining' = (max_requests - Cardinality(Trailing(now))) + Copies(now)
         /\ Remaining' = Remaining + Copies(now)
         /\ ((Len(Pruned) = 1 \/ Pruned[2] > Pruned[1]) =>
               (Copies(now) = 1 /\ Len(Pruned') = Len(Pruned) - 1))]_vars

\* the clock has just passed earliest + time_window of a full window whose
\* two timestamps differ, and one slot is free again
C8_Witness ==
    LET before == _clean_old_requests(requests, now - 1, time_window) IN
    /\ last.at = now - 1
    /\ max_requests = 2
    /\ Len(before) = 2 /\ before[1] < before[2]
    /\ now = Head(before) + time_window + 1
    /\ Len(Pruned) = 1 /\ Remaining = 1

\* C9: at every instant get_wait_time() is None when can_make_request() is
\* True, and a value in 0..time_window when it is False.
C9_WaitTimeGuard ==
    LET c == can_make_request(requests, now, time_window, max_requests)
        w == get_wait_time(requests, now, time_window, max_requests)
    IN /\ c => w = None
       /\ ~c => (w # None /\ 0 <= w[1] /\ w[1] <= time_window)
       /\ (last.op = "get_wait_time" /\ last.at = now) => (last.wait = w /\ last.can = c)

C9_Witness ==
    /\ last.op = "get_wait_time" /\ last.at = now
    /\ ~last.can
    /\ last.wait = Some(time_window)

\* C10: at capacity get_wait_time() = (oldest timestamp of the pruned window +
\* time_window) - now; and with max_requests=2, time_window=60, add_request at
\* t=0 and t=10: at t=10 can_make_request() is False and the wait is 50, at
\* t=61 can_make_request() is True and the t=0 timestamp is gone.
C10_WaitTimeValue ==
    /\ AtCapacity =>
          get_wait_time(requests, now, time_window, max_requests)
            = Some((Head(Pruned) + time_window) - now)
    /\ (last.op = "get_wait_time" /\ last.at = now /\ ~last.can) =>
          last.wait = Some((Head(requests) + time_window) - now)
    /\ (max_requests = 2 /\ time_window = 60 /\ admitted = <<0, 10>> /\ last.at = now) =>
          /\ (now = 10 /\ last.op = "can_make_request") => ~last.can
          /\ (now = 10 /\ last.op = "get_wait_time") => last.wait = Some(50)
          /\ (now = 61 /\ last.op = "can_make_request") =>
                (last.can /\ requests = <<10>>)

C10_Witness ==
    /\ max_requests = 2 /\ time_window = 60 /\ admitted = <<0, 10>>
    /\ now = 61 /\ last.op = "can_make_request" /\ last.at = now
    /\ last.can /\ requests = <<10>>

\* C11: as the orchestrator drives the limiter, the remaining_requests that
\* get_stats() reports, max_requests - |pruned window|, is never negative.
C11_RemainingNeverNegative ==
    /\ Remaining = max_requests - Len(Pruned)
    /\ Remaining >= 0

\* --------------------------------------------------------- cache properties

\* the fingerprint of the last cache call's arguments
LastKey == _generate_key(last.endpoint, last.params)
\* this step is a call of the cache method op
CacheStep(op) == last'.op = op /\ last' # last
TotalEntries == cache_get_stats(cache, now).total_entries
Valid(k) == k \in DOMAIN cache /\ now < cache[k].expires_at
\* a parameter mapping as a set of (name, value) pairs
AsSet(params) == {params[i] : i \in DOMAIN params}

\* C12: set(e, p, v, ttl) with ttl > 0 makes get(e, p) return v; every get of
\* an entry while now < expires_at returns its payload and leaves the map as
\* it was; and an entry that is not yet expired stays as it is through every
\* step that is not a set of its fingerprint or a clear.
C12_CacheRoundTrip ==
    [][/\ (CacheStep("cache_set") /\ last'.ttl > 0) =>
            /\ cache_get(cache', last'.endpoint, last'.params, now') = last'.data
            /\ cache_after_get(cache', last'.endpoint, last'.params, now') = cache'
       /\ (CacheStep("cache_get") /\ Valid(LastKey')) =>
            /\ last'.value = Some(cache[LastKey'].data)
            /\ cache' = cache
       /\ \A k \in DOMAIN cache :
            (/\ now' < cache[k].expires_at
             /\ ~(CacheStep("cache_set") /\ LastKey' = k)
             /\ ~CacheStep("cache_clear")) =>
                (k \in DOMAIN cache' /\ cache'[k] = cache[k])]_vars

\* a get, later than the set and one second before the expiry, has returned
\* the payload
C12_Witness ==
    /\ last.op = "cache_get" /\ last.at = now /\ last.value = Some("a")
    /\ Valid(LastKey)
    /\ cache[LastKey].created_at < now
    /\ cache[LastKey].expires_at = now + 1

\* C13: an entry expires at its set time + ttl; from then on get returns
\* absent for it; a get of it deletes it and nothing else, so total_entries
\* goes down by one, clear_expired deletes every such entry; get never
\* returns the payload of an entry that has expired; and an expired entry
\* stays expired until it is set again.
C13_CacheExpiry ==
    [][/\ CacheStep("cache_set") =>
            /\ cache'[LastKey'].expires_at = now + last'.ttl
            /\ cache'[LastKey'].created_at = now
       /\ (CacheStep("cache_get") /\ LastKey' \in DOMAIN cache /\ ~Valid(LastKey')) =>
            /\ last'.value = None
            /\ DOMAIN cache' = DOMAIN cache \ {LastKey'}
            /\ TotalEntries' = TotalEntries - 1
            /\ \A k \in DOMAIN cache' : cache'[k] = cache[k]
       /\ (CacheStep("cache_get") /\ last'.value # None) => Valid(LastKey')
       /\ CacheStep("cache_clear_expired") =>
            /\ \A k \in DOMAIN cache : ~Valid(k) => k \notin DOMAIN cache'
            /\ TotalEntries' = TotalEntries
                 - Cardinality({k \in DOMAIN cache : ~Valid(k)})
       /\ \A k \in DOMAIN cache :
            (~Valid(k) /\ k \in DOMAIN cache' /\ ~(CacheStep("cache_set") /\ LastKey' = k))
               => (cache'[k] = cache[k] /\ now' >= cache'[k].expires_at)]_vars

\* a get has found its entry expired and deleted it, leaving the other entry
C13_Witness ==
    /\ last.op = "cache_get" /\ last.at = now /\ last.value = None
    /\ last.evicted = 1
    /\ LastKey \notin DOMAIN cache
    /\ TotalEntries = 1

\* what get(shape) returns in this state
GetNow(shape) == cache_get(cache, shape[1], shape[2], now)
SameRequest(shape) ==
    shape[1] = last.endpoint /\ AsSet(shape[2]) = AsSet(last.params)

\* C14: when set(e, p1, v, ttl) has left the cache with that one entry, not yet
\* expired, get(e2, p2) returns v exactly when e2 = e and p2 and p1 hold the
\* same (name, value) pairs, in whatever order, and absent otherwise.
C14_CacheKeyIdentity ==
    (/\ last.op = "cache_set"
     /\ DOMAIN cache = {LastKey}
     /\ Valid(LastKey)) =>
        \A shape \in CacheShapes :
            /\ SameRequest(shape) => GetNow(shape) = last.data
            /\ ~SameRequest(shape) => GetNow(shape) = None
            /\ cache_after_get(cache, shape[1], shape[2], now) = cache

\* the entry was set with (country, season) and is found with (season, country)
C14_Witness ==
    /\ last.op = "cache_set" /\ last.at < now
    /\ last.params = << <<"country", "fr">>, <<"season", "2023">> >>
    /\ DOMAIN cache = {LastKey}
    /\ GetNow(<<"/leagues", << <<"season", "2023">>, <<"country", "fr">> >> >>) = Some("b")
    /\ GetNow(<<"/leagues", << <<"country", "fr">>, <<"season", "2024">> >> >>) = None

\* ------------------------------------------------------- backoff properties

\* C19: the j-th outcome of a call, the outcome of attempt i = j - 1, when
\* retryable is followed by a sleep of 2*(i+1) seconds for a timeout or a
\* connection error and of 5*(i+1) seconds for HTTP 429; the call wakes that
\* long after the outcome, and attempt i+1 does not start before.
C19_BackoffSchedule ==
    [][\A c \in DOMAIN call :
         LET k == call[c]
             k1 == call'[c]
         IN
         /\ (k1.pc \in {"net", "backoff", "raised", "returned"} /\ ~k1.hit) =>
               /\ \A j \in 1..Len(k1.sleeps) :
                     /\ Retryable(k1.outcomes[j])
                     /\ IsTransportError(k1.outcomes[j]) => k1.sleeps[j] = 2 * j
                     /\ Is429(k1.outcomes[j]) => k1.sleeps[j] = 5 * j
               /\ \A j \in 1..Len(k1.outcomes) :
                     Retryable(k1.outcomes[j]) => j <= Len(k1.sleeps)
         /\ (k.pc = "net" /\ k1.pc = "backoff") =>
               /\ k1.attempt = k.attempt
               /\ k1.wake = now' + k1.sleeps[Len(k1.sleeps)]
               /\ Len(k1.sleeps) = k.attempt + 1
         /\ (k.pc = "backoff" /\ k1.pc = "net") =>
               /\ now >= k.wake
               /\ k1.attempt = k.attempt + 1]_vars

\* a timeout on attempt 0 and a 429 on attempt 1: sleeps of 2 and 10 seconds,
\* and attempt 2 has started
C19_Witness ==
    \E c \in DOMAIN call :
        LET k == Task(c) IN
        /\ k.pc = "net" /\ k.attempt = 2
        /\ k.outcomes[1].kind = "TimeoutException" /\ Is429(k.outcomes[2])
        /\ k.sleeps = <<2, 10>>

\* C20: a call suspends only for the limiter's single wait and between two
\* attempts; with every attempt timing out the sleeps are exactly 2 and 4
\* seconds and the aggregate error follows the last attempt with no sleep.
C20_BackoffOnlyBetweenAttempts ==
    \A c \in DOMAIN call :
        LET k == Task(c) IN
        /\ k.pc = "backoff" => k.attempt + 1 < max_retries
        /\ (Exhausted(k) /\ \A j \in 1..Len(k.outcomes) :
                               k.outcomes[j].kind = "TimeoutException") =>
              k.sleeps = <<2 * 1, 2 * 2>>

\* --------------------------------------------------- error-kind properties

\* C17: a call that ends without returning a payload has raised
\* APIFootballException, whatever its network calls ended with; no other
\* kind of exception leaves _make_request.
C17_SingleErrorKind ==
    \A c \in DOMAIN call :
        LET k == Task(c) IN
        /\ k.pc = "raised" =>
              (k.error # None /\ k.error[1].type = "APIFootballException")
        /\ (k.pc \in {"returned", "raised"} /\ k.result = None) =>
              (k.pc = "raised" /\ k.error[1].type = "APIFootballException")

\* ---------------------------------------------------- cancellation properties

\* the deque is ordered oldest first and holds no time of the future; every
\* cache entry is whole and expires no later than a ttl from now
WellFormed ==
    /\ \A i \in 1..Len(requests) : requests[i] <= now
    /\ \A i \in 1..(Len(requests) - 1) : requests[i] <= requests[i + 1]
    /\ \A key \in DOMAIN cache :
          /\ DOMAIN cache[key] = {"data", "expires_at", "created_at"}
          /\ cache[key].expires_at <= now + ModelTtl
          /\ cache[key].created_at <= now

\* C16: when a call is cancelled in the limiter's wait, in a backoff or in
\* its network call, the deque keeps every timestamp (those the call recorded
\* included), the cache is as it was and was never written by that call, and
\* the deque and the cache are well-formed in every state.
C16_CancellationConsistency ==
    /\ []WellFormed
    /\ [][\A c \in DOMAIN call :
            (call[c].pc \in {"wait", "backoff", "net"} /\ call'[c].pc = "cancelled") =>
               /\ requests' = requests
               /\ Len(requests') >= call[c].n_add
               /\ cache' = cache
               /\ client' = client
               /\ call[c].n_set = 0
               /\ call'[c].result = None]_vars

\* a call cancelled after it had recorded two timestamps, both still in the
\* deque, and with nothing of it in the cache
C16_Witness ==
    \E c \in DOMAIN call :
        LET k == Task(c) IN
        /\ k.pc = "cancelled" /\ k.n_add = 2 /\ k.use_cache
        /\ Len(requests) = 2
        /\ cache = EmptyCache

\* ------------------------------------------------------ concurrency properties

\* the task has gone past the cache lookup without a hit
Missed(k) == k.pc \in {"wait", "net", "backoff", "raised"} \/ (k.pc = "returned" /\ ~k.hit)
\* the task has started its attempts
Attempting(k) == k.pc \in {"net", "backoff", "raised"} \/ (k.pc = "returned" /\ ~k.hit)

\* C15: a call that starts while the cache holds no valid entry for its
\* fingerprint misses the cache, consults the limiter and goes on to record
\* its own timestamp and issue its own network call, whatever another call
\* for the same fingerprint is doing; a call never waits for another call.
C15_NoSingleFlight ==
    /\ [](\A c \in DOMAIN call :
            LET k == Task(c) IN
            /\ Missed(k) => (k.n_check = 1 /\ ~k.hit)
            /\ Attempting(k) => (k.n_add >= 1 /\ k.n_add = k.n_net)
            /\ (k.pc = "wait" /\ now >= k.wake) => ENABLED AfterWait(c)
            /\ (k.pc = "backoff" /\ now >= k.wake) => ENABLED AfterBackoff(c)
            /\ k.pc = "net" => \A o \in PairOutcomes : ENABLED Respond(c, o))
    /\ [][\A c \in DOMAIN call :
            LET k == call[c]
                k1 == call'[c]
            IN
            /\ (k.pc = "idle" /\ k1.pc # "idle" /\ ~HoldsValid(cache, k1)) =>
                  /\ k1.pc \in {"wait", "net"}
                  /\ ~k1.hit /\ k1.n_check = 1
            /\ (k.pc \in {"idle", "wait", "backoff"} /\ k1.pc = "net") =>
                  /\ k1.n_add = k.n_add + 1
                  /\ k1.n_net = k.n_net + 1
                  /\ requests' =
                       Append(IF k.pc = "idle"
                              THEN _clean_old_requests(requests, now, time_window)
                              ELSE requests, now)]_vars

\* both tasks have missed the empty cache for the same fingerprint and each
\* has its own network call outstanding, issued at the same instant, with two
\* timestamps in the deque
C15_Witness ==
    /\ Task("A").pc = "net" /\ Task("B").pc = "net"
    /\ Key(Task("A")) = Key(Task("B"))
    /\ Task("A").params # Task("B").params
    /\ Task("A").n_net = 1 /\ Task("B").n_net = 1
    /\ Task("A").issued = Task("B").issued
    /\ cache = EmptyCache
    /\ Len(requests) = 2

\* ---------------------------------------------------- introspection properties

InWindow(ts) == ts >= now - time_window

\* C18 as stated: get_rate_limiter_stats() and get_cache_stats() leave the
\* deque and the cache map exactly as they were.
C18_IntrospectionReadOnly ==
    [][(CacheStep("get_rate_limiter_stats") \/ CacheStep("get_cache_stats")) =>
          (requests' = requests /\ cache' = cache)]_vars

\* C18 amended: get_cache_stats() leaves the cache map and the deque as they
\* were; get_rate_limiter_stats() leaves the cache map as it was and every
\* timestamp at most time_window old in the deque, in order, and removes
\* exactly the older ones, so the limiter's answers are what they were.
C18_IntrospectionPrunesOnly ==
    [][/\ CacheStep("get_cache_stats") =>
            (requests' = requests /\ cache' = cache)
       /\ CacheStep("get_rate_limiter_stats") =>
            /\ cache' = cache
            /\ requests' = SelectSeq(requests, InWindow)
            /\ last'.evicted = Len(requests) - Len(requests')
            /\ can_make_request(requests', now, time_window, max_requests)
                 = can_make_request(requests, now, time_window, max_requests)
            /\ get_wait_time(requests', now, time_window, max_requests)
                 = get_wait_time(requests, now, time_window, max_requests)
            /\ get_stats(requests', now, time_window, max_requests)
                 = get_stats(requests, now, time_window, max_requests)]_vars

\* get_rate_limiter_stats() has dropped an old timestamp and kept one that is
\* exactly time_window old, with an entry in the cache
C18_Witness ==
    /\ last.op = "get_rate_limiter_stats" /\ last.at = now
    /\ last.evicted = 1
    /\ requests = <<now - time_window>>
    /\ cache # EmptyCache

\* ------------------------------------------------------ per-call properties

\* the task starts a network attempt in this step
StartsAttempt(c) == call[c].pc # "net" /\ call'[c].pc = "net"

\* C21: every step in which a call starts a network attempt has first
\* appended the present instant to the deque, once; no other step appends;
\* so a call has recorded as many timestamps as it has started attempts, at
\* most max_retries, its failed and retried attempts included.
C21_OneSlotPerAttempt ==
    /\ [](\A c \in DOMAIN call :
            LET k == Task(c) IN
            /\ k.n_add = k.n_net
            /\ k.n_net <= max_retries
            /\ NumOutcomes(k) <= k.n_net
            /\ k.pc = "net" => (k.n_net = k.attempt + 1 /\ NumOutcomes(k) = k.attempt)
            /\ k.pc = "backoff" => NumOutcomes(k) = k.n_add)
    /\ [][/\ \A c \in DOMAIN call :
               StartsAttempt(c) =>
                  /\ requests' =
                       Append(IF call[c].pc = "idle"
                              THEN _clean_old_requests(requests, now, time_window)
                              ELSE requests, now)
                  /\ call'[c].n_add = (IF call[c].pc = "idle" THEN 0 ELSE call[c].n_add) + 1
                  /\ call'[c].n_net = call'[c].n_add
          /\ (\A c \in DOMAIN call : ~StartsAttempt(c)) =>
               Len(requests') <= Len(requests)]_vars

\* three attempts, all failed: three timestamps recorded, all in the deque
C21_Witness ==
    \E c \in DOMAIN call :
        LET k == Task(c) IN
        /\ Exhausted(k) /\ k.n_net = max_retries /\ k.n_add = max_retries
        /\ Len(requests) = max_retries
        /\ Is429(k.outcomes[1]) /\ IsTransportError(k.outcomes[2])

\* C22: a call consults the limiter once, when it is entered and has missed
\* the cache; it sleeps, once and for the wait_time the limiter gave, exactly
\* when admission was denied with a positive wait_time; when the sleep is
\* over it records its timestamp and issues attempt 0 without consulting the
\* limiter, whatever the limiter would say, and so does every retry.
C22_SingleWait ==
    /\ [](\A c \in DOMAIN call :
            LET k == Task(c) IN
            /\ k.n_check <= 1
            /\ k.hit => k.n_check = 0
            /\ k.waited # None => (k.n_check = 1 /\ k.waited[1] > 0)
            /\ k.pc = "wait" => (k.waited # None /\ k.n_add = 0 /\ k.attempt = 0))
    /\ [][\A c \in DOMAIN call :
            LET k == call[c]
                k1 == call'[c]
                can == can_make_request(requests, now, time_window, max_requests)
                w == get_wait_time(requests, now, time_window, max_requests)
            IN
            /\ (k.pc = "idle" /\ k1.pc # "idle" /\ ~k1.hit) =>
                  /\ k1.n_check = 1
                  /\ (k1.pc = "wait") = (~can /\ w # None /\ w[1] > 0)
                  /\ k1.pc = "wait" => (k1.waited = w /\ k1.wake = now + w[1])
                  /\ k1.pc # "wait" => (k1.pc = "net" /\ k1.waited = None)
            /\ (k.pc = "wait" /\ k1.pc = "wait") =>
                  (k1.n_check = k.n_check /\ k1.wake <= k.wake /\ k1.waited = k.waited)
            /\ (k.pc = "wait" /\ k1.pc # "wait") =>
                  /\ now >= k.wake
                  /\ k1.pc = "net" /\ k1.attempt = 0
                  /\ k1.n_check = 1 /\ k1.waited = k.waited
                  /\ requests' = Append(requests, now)
            /\ (k.pc = "backoff" /\ k1.pc = "net") =>
                  /\ k1.n_check = k.n_check
                  /\ requests' = Append(requests, now)]_vars

\* a call that waited has issued attempt 0 although the window, its own
\* timestamp apart, still held max_requests timestamps of the last time_window
C22_Witness ==
    \E c \in DOMAIN call :
        LET k == Task(c) IN
        /\ k.pc = "net" /\ k.attempt = 0 /\ k.issued = now
        /\ k.waited # None /\ k.n_check = 1 /\ k.n_add = 1
        /\ Len(Pruned) = max_requests + 1

\* C23: when two calls for one fingerprint both succeed, each success stores
\* its own payload with an expiry of the present instant plus the ttl, whole,
\* in place of whatever entry the fingerprint had; the cache holds one entry
\* for the fingerprint, the one of the set that ran last.
C23_LastWriterWins ==
    /\ [](/\ Cardinality(DOMAIN cache) <= 1
          /\ \A key \in DOMAIN cache :
                /\ DOMAIN cache[key] = {"data", "expires_at", "created_at"}
                /\ cache[key].expires_at = cache[key].created_at + ModelTtl
                /\ \E o \in PairOutcomes : IsGood200(o) /\ cache[key].data = Payload(o))
    /\ [][\A c \in DOMAIN call :
            (call[c].pc = "net" /\ call'[c].pc = "returned") =>
               LET k == call'[c] IN
               /\ DOMAIN cache' = DOMAIN cache \cup {Key(k)}
               /\ cache'[Key(k)] = [data |-> Payload(LastOutcome(k)),
                                    expires_at |-> now + ModelTtl,
                                    created_at |-> now]
               /\ k.result = Some(cache'[Key(k)].data)
               /\ \A key \in DOMAIN cache \ {Key(k)} : cache'[key] = cache[key]]_vars

\* both tasks have fetched and stored, A the payload "a" and then B the
\* payload "b": the entry is B's
C23_Witness ==
    /\ \A c \in DOMAIN call : Task(c).pc = "returned" /\ ~Task(c).hit /\ Task(c).n_set = 1
    /\ Key(Task("A")) = Key(Task("B"))
    /\ Task("A").params # Task("B").params
    /\ Task("A").result[1].response = "a"
    /\ Task("B").result[1].response = "b"
    /\ DOMAIN cache = {Key(Task("A"))}
    /\ cache[Key(Task("B"))].data = Task("B").result[1]
    /\ cache[Key(Task("B"))].expires_at = now + ModelTtl

Terminal(k) ==
    \/ k.pc = "returned" /\ k.result # None /\ k.error = None
    \/ k.pc = "raised" /\ k.error # None /\ k.result = None
Running(k) == k.pc \in {"wait", "net", "backoff"}

\* the steps of one call: CHECK_CACHE and CHECK_LIMITER are passed in the
\* step that enters it
CallStep(k, k1) ==
    \/ k1 = k
    \/ k.pc = "idle" /\ k1.pc = "returned" /\ k1.hit /\ k1.n_check = 0
    \/ k.pc = "idle" /\ k1.pc = "wait" /\ k1.n_check = 1 /\ k1.n_net = 0
    \/ k.pc = "idle" /\ k1.pc = "net" /\ k1.n_check = 1 /\ k1.attempt = 0
         /\ k1.waited = None
    \/ k.pc = "wait" /\ k1.pc = "wait" /\ k1.wake < k.wake
    \/ k.pc = "wait" /\ k1.pc = "net" /\ k1.attempt = 0
    \/ k.pc = "net" /\ k1.pc = "net" /\ k1.attempt = k.attempt
    \/ k.pc = "net" /\ k1.pc \in {"returned", "raised"} /\ k1.attempt = k.attempt
    \/ k.pc = "net" /\ k1.pc = "backoff" /\ k1.attempt = k.attempt
         /\ Retryable(LastOutcome(k1))
    \/ k.pc = "backoff" /\ k1.pc = "backoff" /\ k1.wake < k.wake
    \/ k.pc = "backoff" /\ k1.pc = "net" /\ k1.attempt = k.attempt + 1
    \/ k.pc = "backoff" /\ k1.pc = "raised" /\ k.attempt + 1 = max_retries
    \/ k.pc \in {"returned", "raised"} /\ k1.pc = "idle"

\* C24: a call that has been entered reaches SUCCESS (it has returned a
\* payload) or FATAL (it has raised), whatever its network calls end with and
\* whatever the limiter holds; on the way it passes the cache and the limiter
\* once, sleeps the limiter's wait at most once and before attempt 0 only,
\* issues at most max_retries attempts, and each retry has the index of the
\* attempt before it plus one.
C24_CallTermination ==
    /\ [](\A c \in FairTasks :
            LET k == Task(c) IN
            /\ k.pc \in {"idle", "wait", "net", "backoff", "returned", "raised"}
            /\ k.pc \in {"returned", "raised"} => Terminal(k)
            /\ k.n_check <= 1
            /\ k.n_net <= max_retries
            /\ k.pc # "idle" /\ ~k.hit => k.n_check = 1
            /\ k.pc \in {"net", "backoff"} => k.n_net = k.attempt + 1)
    /\ [][\A c \in FairTasks :
            /\ CallStep(call[c], call'[c])
            /\ (Running(call[c]) /\ call'[c].pc # "idle") =>
                  (call'[c].n_check = call[c].n_check /\ call'[c].waited = call[c].waited
                     /\ call'[c].hit = call[c].hit)]_vars
    /\ \A c \in FairTasks : (Task(c).pc # "idle") ~> Terminal(Task(c))

\* a call that slept the limiter's wait and made max_retries attempts has
\* raised the aggregate error
C24_Witness ==
    \E c \in FairTasks :
        LET k == Task(c) IN
        /\ Exhausted(k) /\ Terminal(k)
        /\ k.waited # None /\ k.n_check = 1
        /\ k.n_net = max_retries /\ k.attempt = max_retries - 1

\* the step stores something: a fingerprint the map did not have, another
\* payload, or a later expiry
CacheWritten ==
    \E key \in DOMAIN cache' :
        \/ key \notin DOMAIN cache
        \/ cache'[key].data # cache[key].data
        \/ cache'[key].expires_at > cache[key].expires_at
Enters(c) == call[c].pc = "idle" /\ call'[c].pc # "idle"
Succeeds(c) == call[c].pc = "net" /\ call'[c].pc = "returned"

\* C25: the cache is written only in the step in which a call made with
\* use_cache=True returns the payload of a 200 response without application
\* error, once per call and under the call's own fingerprint; entries leave the
\* map only through the get of a call entered with use_cache=True, which drops
\* the expired entry of its own fingerprint; a call made with use_cache=False
\* leaves the map as it is when it is entered and when it succeeds, and no
\* step of a call that retries, raises or is cancelled changes the map.
C25_CacheWritesOnlyOnSuccess ==
    /\ [](\A c \in DOMAIN call :
            LET k == Task(c) IN
            /\ k.n_set <= 1
            /\ k.n_set = 1 =>
                 (k.pc = "returned" /\ k.use_cache /\ ~k.hit /\ IsGood200(LastOutcome(k)))
            /\ (k.pc # "idle" /\ ~k.use_cache) => (k.n_set = 0 /\ ~k.hit))
    /\ [][/\ CacheWritten =>
               \E c \in DOMAIN call :
                  LET k == call'[c] IN
                  /\ Succeeds(c) /\ k.use_cache /\ IsGood200(LastOutcome(k))
                  /\ call[c].n_set = 0 /\ k.n_set = 1
                  /\ DOMAIN cache' = DOMAIN cache \cup {Key(k)}
                  /\ cache'[Key(k)].data = Payload(LastOutcome(k))
                  /\ \A key \in DOMAIN cache \ {Key(k)} : cache'[key] = cache[key]
          /\ DOMAIN cache' # DOMAIN cache /\ ~CacheWritten =>
               \E c \in DOMAIN call :
                  LET k == call'[c] IN
                  /\ Enters(c) /\ k.use_cache
                  /\ DOMAIN cache' = DOMAIN cache \ {Key(k)}
                  /\ ~(now < cache[Key(k)].expires_at)
                  /\ \A key \in DOMAIN cache' : cache'[key] = cache[key]
          /\ \A c \in DOMAIN call :
               /\ (Enters(c) \/ Succeeds(c)) /\ ~call'[c].use_cache => cache' = cache
               /\ Enters(c) /\ ~call'[c].use_cache => call'[c].n_check = 1
               /\ (Running(call[c]) /\ call'[c].pc # call[c].pc
                     /\ call'[c].pc # "returned") => cache' = cache]_vars

\* a call made with use_cache=False has fetched a payload while the map holds
\* an expired entry for its fingerprint: the entry is still there, with the
\* payload it had
C25_Witness ==
    \E c \in DOMAIN call :
        LET k == Task(c) IN
        /\ k.pc = "returned" /\ ~k.use_cache /\ k.n_set = 0
        /\ IsGood200(LastOutcome(k))
        /\ Key(k) \in DOMAIN cache
        /\ ~(now < cache[Key(k)].expires_at)
        /\ k.result # Some(cache[Key(k)].data)

\* ------------------------------------------- the cache's housekeeping

\* the fingerprints stored whose entry get would return at this instant
Readable ==
    { _generate_key(shape[1], shape[2]) :
        shape \in {sh \in StoredShapes : cache_get(cache, sh[1], sh[2], now) # None} }

\* C26: get_stats() leaves the map as it is and reports as total_entries the
\* number of entries stored, as valid_entries the number of those get would
\* still return (now < expires_at), and as expired_entries the rest, which are
\* the entries clear_expired() would remove: an expired entry that is still
\* stored is counted in total_entries and in expired_entries.
C26_CacheStatsCount ==
    [][CacheStep("cache_get_stats") =>
         LET st == last'.stats[1] IN
         /\ cache' = cache
         /\ DOMAIN st = {"total_entries", "valid_entries", "expired_entries"}
         /\ st.total_entries = Cardinality(DOMAIN cache)
         /\ st.valid_entries = Cardinality(Readable)
         /\ st.valid_entries =
               Cardinality({key \in DOMAIN cache : now < cache[key].expires_at})
         /\ st.expired_entries = st.total_entries - st.valid_entries
         /\ st.expired_entries =
               Cardinality(DOMAIN cache \ DOMAIN cache_clear_expired(cache, now))]_vars

\* get_stats() has counted two entries, one of them at the instant it expires
C26_Witness ==
    /\ last.op = "cache_get_stats" /\ last.at = now
    /\ last.stats = Some([total_entries |-> 2, valid_entries |-> 1, expired_entries |-> 1])
    /\ Cardinality(DOMAIN cache) = 2
    /\ \E key \in DOMAIN cache : cache[key].expires_at = now /\ cache[key].created_at < now

\* C27: clear_expired() at the instant now leaves exactly the entries that had
\* expires_at > now, each as it was; the entries it removes are exactly those
\* get would not return at that instant; clear() leaves the map empty.
C27_ClearExpiredExact ==
    [][/\ CacheStep("cache_clear_expired") =>
            /\ DOMAIN cache' = {key \in DOMAIN cache : cache[key].expires_at > now}
            /\ \A key \in DOMAIN cache' : cache'[key] = cache[key]
            /\ DOMAIN cache \ DOMAIN cache' = DOMAIN cache \ Readable
            /\ last'.evicted = Cardinality(DOMAIN cache \ Readable)
       /\ CacheStep("cache_clear") => DOMAIN cache' = {}]_vars

\* clear_expired() has removed one entry of two
C27_Witness ==
    /\ last.op = "cache_clear_expired" /\ last.at = now
    /\ last.evicted = 1
    /\ Cardinality(DOMAIN cache) = 1
    /\ \A key \in DOMAIN cache : cache[key].expires_at > now

\* ------------------------------------------------ the limiter's window

Sorted(reqs) == \A i, j \in DOMAIN reqs : i < j => reqs[i] <= reqs[j]
AddStep == admitted' # admitted
QueryStep ==
    /\ last'.op \in {"can_make_request", "get_wait_time", "get_stats"}
    /\ last' # last

\* C28: add_request() appends the present instant to the end of the deque,
\* once, and changes nothing else, whether the deque holds fewer than
\* max_requests timestamps, max_requests of them or more, and whether or not
\* it holds timestamps older than the window: nothing is pruned and nothing
\* is refused.
C28_AddRequestNeverRejects ==
    [][AddStep =>
         /\ requests' = Append(requests, now)
         /\ Len(requests') = Len(requests) + 1
         /\ requests'[Len(requests')] = now
         /\ admitted' = Append(admitted, now)
         /\ UNCHANGED <<now, max_requests, time_window, client_vars>>]_vars

\* add_request() has just appended to a deque that was over capacity and
\* whose oldest timestamp had left the window
C28_Witness ==
    /\ last.op = "add_request" /\ last.at = now
    /\ Len(requests) > max_requests + 1
    /\ requests[1] < now - time_window
    /\ requests[Len(requests)] = now
    /\ requests = admitted

\* C29: with a clock that never goes back the deque is ordered oldest first,
\* so each of can_make_request(), get_wait_time() and get_stats() leaves in it
\* exactly the timestamps not older than now - time_window, one that is exactly
\* time_window old included, in their order, and counts those.
C29_WindowOrderedAndPruned ==
    /\ [](Sorted(requests) /\ Sorted(admitted))
    /\ [][QueryStep =>
            /\ requests' = SelectSeq(requests, InWindow)
            /\ \A i \in DOMAIN requests' : requests'[i] >= now - time_window
            /\ \A i \in DOMAIN requests :
                 requests[i] >= now - time_window =>
                    \E j \in DOMAIN requests' : requests'[j] = requests[i]
            /\ last'.op \in {"can_make_request", "get_wait_time"} =>
                 last'.can = (Len(SelectSeq(requests, InWindow)) < max_requests)
            /\ last'.op = "get_stats" =>
                 last'.remaining = max_requests - Len(SelectSeq(requests, InWindow))]_vars

\* a query has dropped the timestamps older than the window and kept, and
\* counted, one that is exactly time_window old
C29_Witness ==
    /\ last.op = "can_make_request" /\ last.at = now
    /\ Len(admitted) > Len(requests)
    /\ Len(requests) >= max_requests
    /\ requests[1] = now - time_window
    /\ ~last.can

\* ------------------------------------------------------ the upstream quota

\* the timestamps recorded less than time_window ago, one per network call
RecentlyRecorded == {i \in DOMAIN requests : requests[i] > now - time_window}

\* C30: over concurrent and successive calls through one client, calls that
\* slept the limiter's wait and calls that retry included, the timestamps
\* recorded, one per network call issued, within the last time_window seconds
\* are never more than max_requests.
C30_QuotaRespected ==
    Cardinality(RecentlyRecorded) <= max_requests

\* ------------------------------------------------ the transport handle

\* C31: with the process-wide client used through `async with` by requests
\* that overlap, a handle with a request in flight is never closed, and once
\* every request has left its scope every handle that was created is closed.
C31_HandleLifecycle ==
    /\ \A h \in DOMAIN handles :
          handles[h].users # {} => handles[h].state = "open"
    /\ (\A c \in DOMAIN call : Task(c).pc = "idle") =>
          \A h \in DOMAIN handles : handles[h].state = "closed"

====
